---- MODULE Spec2Model ----
(***************************************************************************)
(* A model of react-usewebworker: the useWebWorker hook (main thread), the *)
(* registerWorker entry (worker thread) and the message channel between    *)
(* them.  One subscription (one call site of the hook) is modelled.        *)
(*                                                                         *)
(* React's scheduling is modelled as follows.  A render runs the hook body *)
(* (useReducer, useMemo, useRef) and commits; layout effects run within    *)
(* the commit; passive effects (useEffect) are flushed in a later step,    *)
(* cleanups first, then the effect bodies in declaration order.  Worker    *)
(* events are separate tasks of the main thread's event loop and may be    *)
(* delivered between a commit and the flush of its passive effects.        *)
(***************************************************************************)
EXTENDS Integers, Sequences, FiniteSets, TLC

\* ------------------------------------------------------------------ bounds
MaxInput   == 3   \* inputs are 1..MaxInput
MaxWorkers == 2   \* workers a subscription may create in one run
MaxQueue   == 2   \* messages and events queued at one worker, both ways
MaxFaults  == 1   \* host-level fault events queued at one worker

Inputs    == 1..MaxInput
WorkerIds == 1..MaxWorkers

\* Identities of the createWorker callback.  useMemo only compares the
\* callback with the one it remembers, so a render is given either the
\* remembered identity or a fresh one; identities are numbered as they
\* first appear.
NoRecipe == 0
Recipes(remembered) == {remembered, remembered + 1} \ {NoRecipe}

\* ------------------------------------------------------------- data model
\* `null` for State.result (the results of func are positive numbers).
nullResult == 0
\* `null` for State.error.
nullError == "null"

WorkerError        == "Worker error"
WorkerMessageError == "Worker message error"
Errors             == {WorkerError, WorkerMessageError}

Statuses == {"idle", "pending", "stale", "resolved", "rejected"}
\* No [input] effect is scheduled, so no closure of it is alive.
NoStatus == "none"

\* The function handed to registerWorker: an arbitrary function of the
\* payload that may raise.  Here it raises on the multiples of 3 and
\* otherwise returns ten times its argument.
func(data) ==
  IF data % 3 = 0
    THEN [threw |-> TRUE, value |-> nullResult]
    ELSE [threw |-> FALSE, value |-> 10 * data]

Results == {func(d).value : d \in {x \in Inputs : ~func(x).threw}}

\* type Action<T>
Pending     == [type |-> "pending",  data |-> nullResult, error |-> nullError]
Stale       == [type |-> "stale",    data |-> nullResult, error |-> nullError]
Resolved(d) == [type |-> "resolved", data |-> d,          error |-> nullError]
Rejected(e) == [type |-> "rejected", data |-> nullResult, error |-> e]

Actions ==
  {Pending, Stale}
    \cup {Resolved(d) : d \in Results \cup {nullResult}}
    \cup {Rejected(e) : e \in Errors}

\* type State<T>
States ==
  [status : Statuses, result : Results \cup {nullResult},
   error : Errors \cup {nullError}]

\* const reducerState = {status: "idle", result: null, error: null}
reducerState == [status |-> "idle", result |-> nullResult, error |-> nullError]

VARIABLES
  phase,            \* "new" | "mounted" | "unmounting" | "unmounted"
  state,            \* the useReducer state
  mounted,          \* useSafeDispatch: mounted.current
  createWorker,     \* useMemo's remembered dependency
  worker,           \* useMemo's value: the current worker (0: none yet)
  lastWorker,       \* lastWorker.current
  effectWorker,     \* the worker whose effect (and cleanup) is installed
  input,            \* the input of the last render
  pendW,            \* the [worker] effect is scheduled and not yet flushed
  pendI,            \* the [input] effect is scheduled and not yet flushed
  seen,             \* state.status as closed over by the scheduled [input] effect
  workers,          \* per worker: status, bound observers, inbox, outbox
  requested,        \* history: the worker the last postMessage went to
  first,            \* history: no input or recipe change since the mount
  dropped,          \* history: the liveness guard has dropped a dispatch
  handled,          \* worker harness: payloads the handler has taken
  emitted,          \* worker harness: results the handler has posted
  rPrev,            \* reducer harness: the state the reducer was applied to
  rAction           \* reducer harness: the action it was applied with

vars ==
  <<phase, state, mounted, createWorker, worker, lastWorker, effectWorker,
    input, pendW, pendI, seen, workers, requested, first, dropped, handled,
    emitted, rPrev, rAction>>

NoAction == [type |-> "none", data |-> nullResult, error |-> nullError]

\* ---------------------------------------------------------------- reducer
\* As workerMessageReducer, but a rejection keeps the previous result.
workerMessageReducer_keepsResult(st, action) ==
  CASE action.type = "pending" ->
         [status |-> "pending", result |-> st.result, error |-> nullError]
    [] action.type = "stale" ->
         [status |-> "stale", result |-> st.result, error |-> nullError]
    [] action.type = "resolved" ->
         [status |-> "resolved", result |-> action.data, error |-> nullError]
    [] action.type = "rejected" ->
         [status |-> "rejected", result |-> st.result, error |-> action.error]

\* The four cases of the switch; any other action type makes the code throw
\* (the default case), and no caller dispatches one.
workerMessageReducer(st, action) ==
  CASE action.type = "pending" ->
         [status |-> "pending", result |-> st.result, error |-> nullError]
    [] action.type = "stale" ->
         [status |-> "stale", result |-> st.result, error |-> nullError]
    [] action.type = "resolved" ->
         [status |-> "resolved", result |-> action.data, error |-> nullError]
    [] action.type = "rejected" ->
         [status |-> "rejected", result |-> nullResult, error |-> action.error]

\* As useSafeDispatch, without the check of mounted.current.
useSafeDispatch_unguarded(st, isMounted, action) ==
  workerMessageReducer(st, action)

\* useSafeDispatch's callback: mounted.current ? dispatch(action) : void 0
useSafeDispatch(st, isMounted, action) ==
  IF isMounted THEN workerMessageReducer(st, action) ELSE st

\* ---------------------------------------------------------------- workers
NoWorker ==
  [status |-> "none", bound |-> FALSE, inbox |-> <<>>, outbox |-> <<>>]

\* new Worker(...)
newWorker ==
  [status |-> "live", bound |-> FALSE, inbox |-> <<>>, outbox |-> <<>>]

\* As terminate, for a cleanup that leaves the worker running.
terminate_forgotten(ws, w) == ws

\* worker.terminate(): the worker stops, and the messages queued in either
\* direction are discarded.
terminate(ws, w) ==
  [ws EXCEPT ![w].status = "terminated", ![w].inbox = <<>>, ![w].outbox = <<>>]

\* As postMessage, for a channel that loses every message.
postMessage_lost(ws, w, data) == ws

\* worker.postMessage(data): queued for a running worker, lost otherwise.
postMessage(ws, w, data) ==
  IF ws[w].status = "live"
    THEN [ws EXCEPT ![w].inbox = Append(@, data)]
    ELSE ws

LiveWorkers == {w \in WorkerIds : workers[w].status = "live"}

Queued(w) == Len(workers[w].inbox) + Len(workers[w].outbox)

\* Everything of the hook but the reducer's state, before the first render.
HookInit ==
  /\ phase = "new"
  /\ mounted = FALSE
  /\ createWorker = NoRecipe
  /\ worker = 0
  /\ lastWorker = 0
  /\ effectWorker = 0
  /\ input = 0
  /\ pendW = FALSE
  /\ pendI = FALSE
  /\ seen = NoStatus
  /\ workers = [w \in WorkerIds |-> NoWorker]
  /\ requested = 0
  /\ first = TRUE
  /\ dropped = FALSE

Init ==
  /\ HookInit
  /\ state = reducerState
  /\ handled = <<>>
  /\ emitted = <<>>
  /\ rPrev = reducerState
  /\ rAction = NoAction

harnessVars == <<handled, emitted, rPrev, rAction>>

Created == {w \in WorkerIds : workers[w].status # "none"}

\* ------------------------------------------------------------ hook body
\* As memoStale, for a useMemo without its dependency list: the factory
\* runs on every render.
memoStale_always(cw) == TRUE

\* useMemo(createWorker, [createWorker]): the factory runs again when its
\* identity differs from the remembered dependency.
memoStale(cw) == cw # createWorker

\* useEffect(..., [input]): the effect is scheduled when the input differs
\* from that of the previous render.
inputChanged(inp) == inp # input

\* The action the input effect dispatches, from the status it closed over.
inputEffectAction(status) == IF status = "resolved" THEN Stale ELSE Pending

\* As inputEffect, for an effect that posts the input before it dispatches,
\* and always dispatches Pending.
inputEffect_sendFirst(status, inp) ==
  << [op |-> "postMessage", action |-> NoAction, data |-> inp],
     [op |-> "dispatch", action |-> Pending, data |-> nullResult] >>

\* The calls the [input] effect makes, in the order it makes them: one
\* dispatch, of the action chosen from the status it closed over, then one
\* postMessage of the input it closed over.
inputEffect(status, inp) ==
  << [op |-> "dispatch", action |-> inputEffectAction(status), data |-> nullResult],
     [op |-> "postMessage", action |-> NoAction, data |-> inp] >>

\* The calls of an effect carried out one after the other, on the reducer's
\* state st and the workers ws; postMessage goes to lastWorker.current.
RECURSIVE runEffect(_, _, _, _, _)
runEffect(calls, st, ws, isMounted, target) ==
  IF calls = <<>>
    THEN [state |-> st, workers |-> ws]
    ELSE IF Head(calls).op = "dispatch"
      THEN runEffect(Tail(calls),
                     useSafeDispatch(st, isMounted, Head(calls).action),
                     ws, isMounted, target)
      ELSE runEffect(Tail(calls), st,
                     postMessage(ws, target, Head(calls).data),
                     isMounted, target)

\* As Mount, for a useSafeDispatch whose layout effect never sets
\* mounted.current.
Mount_flagUnset(cw, inp) ==
  /\ phase = "new"
  /\ phase' = "mounted"
  /\ createWorker' = cw
  /\ worker' = 1
  /\ workers' = [workers EXCEPT ![1] = newWorker]
  /\ lastWorker' = 1
  /\ input' = inp
  /\ pendW' = TRUE
  /\ pendI' = TRUE
  /\ seen' = state.status
  /\ UNCHANGED <<state, mounted, effectWorker, requested, first, dropped,
                 harnessVars>>

\* The first render and its commit: useReducer, useSafeDispatch (the layout
\* effect sets mounted.current), useMemo (creates the worker), useRef(worker);
\* both passive effects are scheduled.
Mount(cw, inp) ==
  /\ phase = "new"
  /\ phase' = "mounted"
  /\ createWorker' = cw
  /\ worker' = 1
  /\ workers' = [workers EXCEPT ![1] = newWorker]
  /\ lastWorker' = 1
  /\ mounted' = TRUE
  /\ input' = inp
  /\ pendW' = TRUE
  /\ pendI' = TRUE
  /\ seen' = state.status
  /\ UNCHANGED <<state, effectWorker, requested, first, dropped, harnessVars>>

\* A later render and its commit, with the props (cw, inp).  Passive
\* effects of the previous commit are always flushed before a new render.
Render(cw, inp) ==
  /\ phase = "mounted"
  /\ ~pendW /\ ~pendI
  /\ (inputChanged(inp) /\ ~memoStale(cw)) => Queued(worker) < MaxQueue
  /\ IF memoStale(cw)
       THEN /\ Cardinality(Created) < MaxWorkers
            /\ createWorker' = cw
            /\ worker' = Cardinality(Created) + 1
            /\ workers' = [workers EXCEPT ![Cardinality(Created) + 1] = newWorker]
       ELSE UNCHANGED <<createWorker, worker, workers>>
  /\ pendW' = (worker' # effectWorker)
  /\ pendI' = inputChanged(inp)
  /\ seen' = IF inputChanged(inp) THEN state.status ELSE seen
  /\ input' = inp
  /\ first' = (first /\ ~memoStale(cw) /\ ~inputChanged(inp))
  /\ UNCHANGED <<phase, state, mounted, lastWorker, effectWorker, requested,
                 dropped, harnessVars>>

\* As FlushEffects, for a [worker] effect that does not assign
\* lastWorker.current: the [input] effect posts to the worker of the ref's
\* initial value.
FlushEffects_staleRef ==
  /\ phase = "mounted"
  /\ pendW \/ pendI
  /\ LET cleaned == IF pendW /\ effectWorker # 0
                      THEN terminate(workers, effectWorker)
                      ELSE workers
         bound   == IF pendW
                      THEN [cleaned EXCEPT ![worker].bound = TRUE]
                      ELSE cleaned
         calls   == IF pendI THEN inputEffect(seen, input) ELSE <<>>
         ran     == runEffect(calls, state, bound, mounted, lastWorker)
     IN /\ lastWorker' = lastWorker
        /\ effectWorker' = IF pendW THEN worker ELSE effectWorker
        /\ state' = ran.state
        /\ workers' = ran.workers
        /\ requested' = IF pendI THEN lastWorker ELSE requested
  /\ pendW' = FALSE
  /\ pendI' = FALSE
  /\ dropped' = (dropped \/ (pendI /\ ~mounted))
  /\ seen' = NoStatus
  /\ UNCHANGED <<phase, mounted, createWorker, worker, input, first,
                 harnessVars>>

\* The flush of the scheduled passive effects: the cleanup of the previous
\* [worker] effect (terminate), the [worker] effect (lastWorker.current,
\* the three observers), then the [input] effect (dispatch, postMessage).
FlushEffects ==
  /\ phase = "mounted"
  /\ pendW \/ pendI
  /\ LET cleaned == IF pendW /\ effectWorker # 0
                      THEN terminate(workers, effectWorker)
                      ELSE workers
         bound   == IF pendW
                      THEN [cleaned EXCEPT ![worker].bound = TRUE]
                      ELSE cleaned
         target  == IF pendW THEN worker ELSE lastWorker
         calls   == IF pendI THEN inputEffect(seen, input) ELSE <<>>
         ran     == runEffect(calls, state, bound, mounted, target)
     IN /\ lastWorker' = target
        /\ effectWorker' = IF pendW THEN worker ELSE effectWorker
        /\ state' = ran.state
        /\ workers' = ran.workers
        /\ requested' = IF pendI THEN target ELSE requested
  /\ pendW' = FALSE
  /\ pendI' = FALSE
  /\ dropped' = (dropped \/ (pendI /\ ~mounted))
  /\ seen' = NoStatus
  /\ UNCHANGED <<phase, mounted, createWorker, worker, input, first,
                 harnessVars>>

\* The component is removed: the layout effect's cleanup runs within the
\* commit (mounted.current = false); the passive cleanup is deferred.
Unmount ==
  /\ phase = "mounted"
  /\ ~pendW /\ ~pendI
  /\ phase' = "unmounting"
  /\ mounted' = FALSE
  /\ UNCHANGED <<state, createWorker, worker, lastWorker, effectWorker, input,
                 pendW, pendI, seen, workers, requested, first, dropped,
                 harnessVars>>

\* The deferred cleanup of the [worker] effect: worker.terminate().
FlushUnmount ==
  /\ phase = "unmounting"
  /\ phase' = "unmounted"
  /\ workers' = IF effectWorker # 0
                  THEN terminate(workers, effectWorker)
                  ELSE workers
  /\ UNCHANGED <<state, mounted, createWorker, worker, lastWorker,
                 effectWorker, input, pendW, pendI, seen, requested, first,
                 dropped, harnessVars>>

\* ------------------------------------------------------- channel events
Message(d)   == [type |-> "message", data |-> d]
ErrorEvent   == [type |-> "error", data |-> nullResult]
MessageError == [type |-> "messageerror", data |-> nullResult]
Events == {Message(d) : d \in Results} \cup {ErrorEvent, MessageError}

IsFault(e) == e.type # "message"

\* The three observers bound by the [worker] effect.
observerAction(e) ==
  CASE e.type = "message"      -> Resolved(e.data)
    [] e.type = "error"        -> Rejected(WorkerError)
    [] e.type = "messageerror" -> Rejected(WorkerMessageError)

\* The main thread's event loop delivers the next event of worker w to
\* the observer bound for it, if any.
Deliver(w) ==
  /\ workers[w].status = "live"
  /\ workers[w].outbox # <<>>
  /\ state' = IF workers[w].bound
                THEN useSafeDispatch(state, mounted,
                                     observerAction(Head(workers[w].outbox)))
                ELSE state
  /\ workers' = [workers EXCEPT ![w].outbox = Tail(@)]
  /\ dropped' = (dropped \/ (workers[w].bound /\ ~mounted))
  /\ UNCHANGED <<phase, mounted, createWorker, worker, lastWorker,
                 effectWorker, input, pendW, pendI, seen, requested, first,
                 harnessVars>>

\* After the subscription has ended, a bound observer of worker w is fired
\* with event e (a response or fault arriving late).
FireObserver(w, e) ==
  /\ phase = "unmounted"
  /\ workers[w].bound
  /\ state' = useSafeDispatch(state, mounted, observerAction(e))
  /\ dropped' = (dropped \/ ~mounted)
  /\ UNCHANGED <<phase, mounted, createWorker, worker, lastWorker,
                 effectWorker, input, pendW, pendI, seen, workers, requested,
                 first, harnessVars>>

\* The host raises a fault on running worker w: an error event, or a
\* messageerror event for a message that cannot be decoded.
HostFault(w, e) ==
  /\ workers[w].status = "live"
  /\ e \in {ErrorEvent, MessageError}
  /\ Queued(w) < MaxQueue
  /\ Len(SelectSeq(workers[w].outbox, IsFault)) < MaxFaults
  /\ workers' = [workers EXCEPT ![w].outbox = Append(@, e)]
  /\ UNCHANGED <<phase, state, mounted, createWorker, worker, lastWorker,
                 effectWorker, input, pendW, pendI, seen, requested, first,
                 dropped, harnessVars>>

\* --------------------------------------------------------- worker entry
\* As onmessage, for a handler that computes and posts nothing.
onmessage_silent(data) == <<>>

\* As onmessage, for a handler that posts its result twice.
onmessage_twice(data) ==
  IF func(data).threw THEN <<>> ELSE <<func(data).value, func(data).value>>

\* The handler registerWorker installs, applied to one payload: the
\* messages it posts.  It is an async function, so when func raises the
\* exception rejects the handler's promise: nothing is posted and no error
\* event reaches the Worker object of the main thread.
onmessage(data) ==
  IF func(data).threw THEN <<>> ELSE <<func(data).value>>

\* The worker's event loop hands the next inbound message of worker w to
\* the handler; what the handler posts is queued for the main thread.
HandleNext(w) ==
  /\ workers[w].status = "live"
  /\ workers[w].inbox # <<>>
  /\ LET out == onmessage(Head(workers[w].inbox))
     IN workers' = [workers EXCEPT
                      ![w].inbox = Tail(@),
                      ![w].outbox = @ \o [i \in 1..Len(out) |-> Message(out[i])]]

WorkerOnMessage(w) ==
  /\ HandleNext(w)
  /\ UNCHANGED <<phase, state, mounted, createWorker, worker, lastWorker,
                 effectWorker, input, pendW, pendI, seen, requested, first,
                 dropped, harnessVars>>

\* --------------------------------------------------------- specifications
Next ==
  \/ \E cw \in Recipes(createWorker), inp \in Inputs : Mount(cw, inp)
  \/ \E cw \in Recipes(createWorker), inp \in Inputs : Render(cw, inp)
  \/ FlushEffects
  \/ Unmount
  \/ FlushUnmount
  \/ \E w \in WorkerIds : Deliver(w)
  \/ \E w \in WorkerIds, e \in Events : FireObserver(w, e)
  \/ \E w \in WorkerIds, e \in Events : HostFault(w, e)
  \/ \E w \in WorkerIds : WorkerOnMessage(w)

Spec == Init /\ [][Next]_vars

\* The event loops of both threads keep running: scheduled effects are
\* flushed, queued messages are handled and delivered.  Renders with new
\* props, unmounts and host faults are the environment's and need not occur.
Fairness ==
  /\ WF_vars(FlushEffects)
  /\ WF_vars(FlushUnmount)
  /\ \A w \in WorkerIds : WF_vars(Deliver(w))
  /\ \A w \in WorkerIds : WF_vars(WorkerOnMessage(w))

FairSpec == Spec /\ Fairness

\* The reducer on its own: every state and every action.
ReducerInit ==
  /\ HookInit
  /\ state \in States
  /\ handled = <<>>
  /\ emitted = <<>>
  /\ rPrev = state
  /\ rAction = NoAction

Reduce(a) ==
  /\ rAction = NoAction
  /\ rPrev' = state
  /\ rAction' = a
  /\ state' = workerMessageReducer(state, a)
  /\ UNCHANGED <<phase, mounted, createWorker, worker, lastWorker,
                 effectWorker, input, pendW, pendI, seen, workers, requested,
                 first, dropped, handled, emitted>>

ReducerNext == \E a \in Actions : Reduce(a)

ReducerSpec == ReducerInit /\ [][ReducerNext]_vars

\* The worker entry on its own: one running worker whose host posts any
\* payloads to it; the payloads its handler takes and the data of the
\* messages that appear in its outbox are recorded.
HostPost(w, data) ==
  /\ workers[w].status = "live"
  /\ Len(handled) + Len(workers[w].inbox) < MaxQueue + 1
  /\ workers' = postMessage(workers, w, data)
  /\ UNCHANGED <<phase, state, mounted, createWorker, worker, lastWorker,
                 effectWorker, input, pendW, pendI, seen, requested, first,
                 dropped, harnessVars>>

TracedOnMessage(w) ==
  /\ HandleNext(w)
  /\ handled' = Append(handled, Head(workers[w].inbox))
  /\ emitted' = emitted \o
       [i \in 1..(Len(workers'[w].outbox) - Len(workers[w].outbox)) |->
          workers'[w].outbox[Len(workers[w].outbox) + i].data]
  /\ UNCHANGED <<phase, state, mounted, createWorker, worker, lastWorker,
                 effectWorker, input, pendW, pendI, seen, requested, first,
                 dropped, rPrev, rAction>>

WorkerNext ==
  \/ \E cw \in Recipes(createWorker), inp \in Inputs : Mount(cw, inp)
  \/ \E w \in WorkerIds, data \in Inputs : HostPost(w, data)
  \/ \E w \in WorkerIds : TracedOnMessage(w)

WorkerSpec == Init /\ [][WorkerNext]_vars

\* The subscription in a quiet environment: the recipe is the same at every
\* render and the host raises no fault; the input changes at will.
QuietNext ==
  \/ \E cw \in Recipes(createWorker), inp \in Inputs : Mount(cw, inp)
  \/ \E inp \in Inputs : Render(createWorker, inp)
  \/ FlushEffects
  \/ Unmount
  \/ FlushUnmount
  \/ \E w \in WorkerIds : Deliver(w)
  \/ \E w \in WorkerIds, e \in Events : FireObserver(w, e)
  \/ \E w \in WorkerIds : WorkerOnMessage(w)

QuietSpec == Init /\ [][QuietNext]_vars /\ Fairness

\* ------------------------------------------------------------------ claims
Torn == phase \in {"unmounting", "unmounted"}

\* C1: once the subscription has ended, no firing of a bound observer (worker
\* message, worker error, worker message error), however often and in
\* whatever order, changes the request state {status, result, error}.
C1_NoPostTeardownMutation == [][Torn => state' = state]_vars

\* C1's case: after the teardown, with a request still unanswered, an
\* observer has fired and its dispatch has been dropped.
C1_Witness == phase = "unmounted" /\ dropped /\ state.status = "pending"

FirstRequest == phase = "mounted" /\ first /\ ~func(input).threw

\* C2: from the default initial state the first status to follow idle is
\* pending with no result; and while the worker function returns normally,
\* the subscription is live and neither input nor recipe has changed, the
\* state becomes resolved with result func(input) (a host fault shows as
\* rejected).
C2_FirstActivation ==
  /\ [][(state.status = "idle" /\ state' # state)
          => state' = [status |-> "pending", result |-> nullResult,
                       error |-> nullError]]_vars
  /\ FirstRequest ~>
       \/ ~FirstRequest
       \/ state.status = "rejected"
       \/ state = [status |-> "resolved", result |-> func(input).value,
                   error |-> nullError]

\* C2's case: the first request has been answered.
C2_Witness ==
  /\ FirstRequest
  /\ state = [status |-> "resolved", result |-> func(input).value,
              error |-> nullError]

RECURSIVE Responses(_)
Responses(payloads) ==
  IF payloads = <<>> THEN <<>>
  ELSE (IF func(Head(payloads)).threw THEN <<>>
                                      ELSE <<func(Head(payloads)).value>>)
         \o Responses(Tail(payloads))

\* C9: the handler emits exactly one message, carrying func(p), for every
\* inbound payload p on which func returns; the outbound messages are in the
\* order of the inbound ones and the k-th depends on the k-th payload alone.
C9_OneShotExchange == emitted = Responses(handled)

\* C9's case: two different payloads have been answered.
C9_Witness ==
  /\ Len(handled) >= 2
  /\ Len(emitted) >= 2
  /\ emitted[1] # emitted[2]

\* C10: a re-render with a changed input and the same createWorker creates
\* and terminates no worker and sends the new input to the same worker; a
\* re-render with both unchanged sends nothing, dispatches nothing and
\* leaves the state and the worker as they are.
C10_InputChangeKeepsWorker ==
  /\ [][\A inp \in Inputs :
          Render(createWorker, inp) =>
            /\ worker' = worker
            /\ workers' = workers
            /\ state' = state
            /\ ~pendW'
            /\ pendI' = (inp # input)]_vars
  /\ [][(FlushEffects /\ ~pendW) =>
          /\ lastWorker' = worker
          /\ workers[worker].status = "live"
          /\ workers' = [workers EXCEPT ![worker].inbox = Append(@, input)]]_vars

\* C10's case: the input alone has changed and the new input is on its way
\* to the first worker.
C10_Witness ==
  /\ phase = "mounted"
  /\ ~first
  /\ Created = {1}
  /\ ~pendI
  /\ Len(workers[1].inbox) = 2
  /\ workers[1].inbox[2] = input

\* The subscription is live and stale, awaiting the answer to input v, on
\* which func returns.
Awaiting(v) ==
  /\ phase = "mounted"
  /\ state.status = "stale"
  /\ ~pendI
  /\ input = v
  /\ ~func(v).threw

\* C3: an input change on a resolved state gives stale with the result it
\* held; the result is not lost before the next answer; and while no fault
\* occurs and the subscription stays live, a stale state becomes resolved
\* with func of the new input (unless the input changes once more, which
\* starts the next request).
C3_StalePreservesResult ==
  /\ [][(FlushEffects /\ pendI /\ seen = "resolved" /\ state.status = "resolved")
          => state' = [status |-> "stale", result |-> state.result,
                       error |-> nullError]]_vars
  /\ [][(state.result # nullResult /\ state'.status # "rejected")
          => state'.result # nullResult]_vars
  /\ \A v \in Inputs :
       Awaiting(v) ~>
         \/ phase # "mounted"
         \/ state.status = "rejected"
         \/ input # v
         \/ state = [status |-> "resolved", result |-> func(v).value,
                     error |-> nullError]

\* C5: at the flush that follows a change of createWorker made while a
\* request is pending and the input is unchanged, the prior worker is
\* discarded and the current input is sent to the new worker.
C5_RecipeChangeResendsInput ==
  [][(FlushEffects /\ pendW /\ ~pendI /\ state.status = "pending") =>
       /\ workers'[effectWorker].status = "terminated"
       /\ workers'[worker].inbox = <<input>>]_vars

\* C6: at most one worker of the subscription is created and not yet
\* terminated.
C6_AtMostOneLiveWorker == Cardinality(LiveWorkers) <= 1

\* The last request went to the current worker and has been worked off:
\* nothing is scheduled, queued or under way.
Settled ==
  /\ phase = "mounted"
  /\ ~pendW /\ ~pendI
  /\ requested = worker
  /\ \A w \in WorkerIds : Queued(w) = 0

\* C7: when func raises on a request of a live subscription the state
\* becomes rejected with no result and an error: once the request has been
\* worked off and nothing more is under way, the state is not pending or
\* stale.
C7_RaiseSurfacesAsRejected ==
  (Settled /\ func(input).threw) =>
    /\ state.status = "rejected"
    /\ state.result = nullResult
    /\ state.error # nullError

\* C8: a rejected state is left only with the request that an input change
\* or a recipe change brings: while none is scheduled, no step (the answer
\* to an earlier request in particular) moves the status out of rejected.
C8_RejectedIsTerminal ==
  [][(state.status = "rejected" /\ ~pendW /\ ~pendI)
       => state'.status = "rejected"]_vars

\* C11: as the reducer's documentation states, a rejected event preserves
\* the previous result and updates the error: after it the state's result
\* equals the result held before it, and the error is the event's.
C11_RejectedPreservesResult ==
  rAction.type = "rejected" =>
    /\ state.result = rPrev.result
    /\ state.error = rAction.error

\* A resolved value is held: a Resolved event has fired and no Rejected
\* event has fired since (the result is cleared by nothing else).
HoldsResolved == state.result # nullResult

\* C12: at every input change at which a resolved value is still held the
\* input effect dispatches Stale, and it dispatches Pending only when none
\* is held; so also when the input changes while the status is stale.
C12_StaleVersusPending ==
  [][(FlushEffects /\ pendI) =>
       state'.status = (IF HoldsResolved THEN "stale" ELSE "pending")]_vars

\* Some worker's inbox has grown in the step: a message has been sent.
Sent == \E w \in WorkerIds : Len(workers'[w].inbox) > Len(workers[w].inbox)

C14_NoCrossTalk ==
  [][\A w \in WorkerIds : (Deliver(w) /\ w # worker) => state' = state]_vars

C16_EveryWorkerReleased ==
  /\ (phase = "mounted" /\ ~pendW) => LiveWorkers = {worker}
  /\ phase = "unmounted" => LiveWorkers = {}

\* C16's case: the subscription has ended after the recipe and the input
\* had changed, having created as many workers as a run may.
C16_Witness ==
  /\ phase = "unmounted"
  /\ Cardinality(Created) = MaxWorkers
  /\ requested = worker
  /\ worker > 1

\* C17: whenever the status is resolved the result is func of the most
\* recently sent input (once the [input] effect has run, the input of the
\* last render); the answer to a superseded request never makes the state
\* resolved with the older input's result.
C17_ResultCurrency ==
  (phase = "mounted" /\ ~pendI /\ state.status = "resolved")
    => state.result = func(input).value

\* C18: with the recipe unchanged and no fault, after any finite sequence of
\* input changes (also ones made while earlier requests are in flight), once
\* the input stays at v, on which func returns, and the subscription stays
\* live, the state becomes resolved with result func(v) and stays so.
C18_EventualConvergence ==
  \A v \in {x \in Inputs : ~func(x).threw} :
    <>[](phase = "mounted" /\ input = v)
      => <>[](state = [status |-> "resolved", result |-> func(v).value,
                       error |-> nullError])

\* C18's case: after input changes the last request has been answered and
\* nothing is under way; the state is resolved with func of the last input.
C18_Witness ==
  /\ Settled
  /\ ~first
  /\ Created = {1}
  /\ state = [status |-> "resolved", result |-> func(input).value,
              error |-> nullError]

\* C19: between the activation and the subscription's end the liveness flag
\* is true whenever the input effect or a bound observer can dispatch, so
\* no Pending, Stale, Resolved or Rejected dispatch is dropped before the
\* teardown; the flag becomes false only at the subscription's end and is
\* never true again after it.
C19_GuardOpenWhileLive ==
  /\ [](phase = "mounted" => mounted)
  /\ [](phase \in {"new", "mounted"} => ~dropped)
  /\ [][(FlushEffects /\ pendI) =>
          state' = workerMessageReducer(state, inputEffectAction(seen))]_vars
  /\ [][\A w \in WorkerIds :
          (Deliver(w) /\ phase = "mounted" /\ workers[w].bound) =>
            state' = workerMessageReducer(state,
                                          observerAction(Head(workers[w].outbox)))]_vars
  /\ [][(mounted /\ ~mounted') => (phase = "mounted" /\ phase' = "unmounting")]_vars
  /\ [][Torn => ~mounted']_vars

\* C19's case: the subscription has ended; while it was live the effect and
\* an observer dispatched and nothing was dropped, and the flag is false.
C19_Witness ==
  /\ phase = "unmounted"
  /\ ~mounted
  /\ ~dropped
  /\ state.status = "resolved"

\* C20: every message the input effect sends goes to the most recently
\* created worker of the subscription, which at the send has its three
\* observers bound and has not been terminated; so also when the input and
\* the recipe change in the same render.
C20_SendsTargetCurrentWorker ==
  [][(FlushEffects /\ pendI) =>
       /\ requested' = worker
       /\ requested' = Cardinality(Created)
       /\ workers'[requested'].bound
       /\ workers'[requested'].status = "live"
       /\ workers'[requested'].inbox # <<>>
       /\ workers'[requested'].inbox[Len(workers'[requested'].inbox)] = input]_vars

\* C20's case: after a change of the recipe the input effect has sent the
\* current input to the second worker, and the first worker is terminated.
C20_Witness ==
  /\ phase = "mounted"
  /\ worker = 2
  /\ requested = 2
  /\ workers[1].status = "terminated"
  /\ workers[2].bound
  /\ workers[2].inbox = <<input>>

====
